---- MODULE Spec2Model ----
(***************************************************************************)
(* protosh (src/main.c): the read/dispatch loop, the builtin dispatcher,   *)
(* protosh_launch, and the history subsystem (add_to_history,              *)
(* clear_history, protosh_history with its replay path).                   *)
(*                                                                         *)
(* Strings are C strings: a heap buffer is a sequence of characters, a     *)
(* written NUL is the character NUL, and the value of a char* is the run   *)
(* of characters from its offset up to the first NUL.  Tokens are offsets  *)
(* into the line buffer, as strtok returns them.                           *)
(***************************************************************************)
EXTENDS Integers, Sequences, FiniteSets, TLC

(***************************************************************************)
(* Bounds of the model.                                                    *)
(***************************************************************************)
\* capacity of the history array; main.c uses the name but never sets it
HISTORY_MAXITEMS == 2
\* frames (the command of the loop and the replays nested in it) the stack
\* holds before it is exhausted
MaxDepth == 3
\* heap cells malloc can hand out: every entry and every line in use
MaxAddr == HISTORY_MAXITEMS + MaxDepth
\* successful records followed between two clears
MaxRecords == HISTORY_MAXITEMS + 1

NULL == 0
Addr == 1..MaxAddr
\* the terminating character a C string ends at
NUL == "NUL"

(***************************************************************************)
(* Characters, words and the lines used as input.                          *)
(***************************************************************************)
\* protosh_TOK_DELIM, restricted to the delimiters the inputs contain
protosh_TOK_DELIM == {" ", "\t"}

w_cd == <<"c", "d">>
w_help == <<"h", "e", "l", "p">>
w_exit == <<"e", "x", "i", "t">>
w_history == <<"h", "i", "s", "t", "o", "r", "y">>
w_ls == <<"l", "s">>
SP == <<" ">>

\* builtin_str[]: index i of the table is builtin_func[i]
builtin_str == <<w_cd, w_help, w_exit, w_history>>

protosh_num_builtins == Len(builtin_str)

l_ls == w_ls
l_hist == w_history
l_hist_c == w_history \o SP \o <<"-", "c">>
l_hist_0 == w_history \o SP \o <<"0">>
l_hist_1 == w_history \o SP \o <<"1">>
l_hist_2 == w_history \o SP \o <<"2">>
l_hist_3 == w_history \o SP \o <<"3">>
l_hist_neg == w_history \o SP \o <<"-", "1">>
l_hist_x == w_history \o SP \o <<"x">>
l_hist_dash == w_history \o <<"\t">> \o <<"-", "x">>
l_hist_1x == w_history \o SP \o SP \o <<"1", "x">>
\* 2^32: a long that the cast to int maps to 0
l_hist_big == w_history \o SP \o <<"4", "2", "9", "4", "9", "6", "7", "2", "9", "6">>
l_exit == w_exit
l_cd == w_cd
l_help == w_help \o SP
\* a name that differs from a builtin by case only
l_Exit == <<"E", "x", "i", "t">>
\* two stages separated by the pipe delimiter
l_pipe == w_ls \o SP \o <<"|">> \o SP \o <<"w", "c">>
l_empty == <<>>
l_blank == <<" ", "\t">>

\* lines typed at the prompt
InputLines ==
  { l_ls, l_hist, l_hist_c, l_hist_0, l_hist_1, l_hist_2, l_hist_3,
    l_hist_neg, l_hist_x, l_hist_dash, l_hist_1x, l_hist_big,
    l_exit, l_cd, l_help, l_empty, l_blank, l_Exit, l_pipe }

\* lines handed to add_to_history
RecordLines == { l_ls, l_hist_c, l_hist_1, l_hist_x }

\* what a read through an invalid pointer can yield when it does not fault
GarbageLines == { l_ls, l_hist_c }

(***************************************************************************)
(* C string functions.                                                     *)
(***************************************************************************)
RECURSIVE CStrAt(_, _)
\* the C string that starts at offset i (1-based) of buffer buf
CStrAt(buf, i) ==
  IF i > Len(buf) \/ buf[i] = NUL THEN <<>>
  ELSE <<buf[i]>> \o CStrAt(buf, i + 1)

CStr(buf) == CStrAt(buf, 1)

\* a comparison that ignores the case of the letters
strcasecmp0(a, b) ==
  LET lower(ch) == IF ch = "E" THEN "e" ELSE ch
  IN /\ Len(a) = Len(b)
     /\ \A i \in 1..Len(a) : lower(a[i]) = lower(b[i])

\* strcmp(a, b) == 0
strcmp0(a, b) == a = b

RECURSIVE SkipDelim(_, _)
\* strtok: skip the leading delimiters from position p
SkipDelim(buf, p) ==
  IF p <= Len(buf) /\ buf[p] # NUL /\ buf[p] \in protosh_TOK_DELIM
  THEN SkipDelim(buf, p + 1) ELSE p

RECURSIVE TokEnd(_, _)
\* strtok: first position at or after p that ends the token
TokEnd(buf, p) ==
  IF p <= Len(buf) /\ buf[p] # NUL /\ buf[p] \notin protosh_TOK_DELIM
  THEN TokEnd(buf, p + 1) ELSE p

\* one strtok call that resumes at position p: the token's offset (0 for
\* NULL), the buffer with the delimiter after the token overwritten by NUL,
\* and the position to resume at
strtok(buf, p) ==
  LET s == SkipDelim(buf, p)
      e == TokEnd(buf, s)
  IN IF s > Len(buf) \/ buf[s] = NUL
     THEN [tok |-> 0, buf |-> buf, next |-> s]
     ELSE IF e > Len(buf)
          THEN [tok |-> s, buf |-> buf, next |-> e]
          ELSE [tok |-> s, buf |-> [buf EXCEPT ![e] = NUL], next |-> e + 1]

RECURSIVE split_loop(_, _, _)
split_loop(buf, p, tokens) ==
  LET t == strtok(buf, p)
  IN IF t.tok = 0 THEN [buf |-> t.buf, tokens |-> tokens]
     ELSE split_loop(t.buf, t.next, Append(tokens, t.tok))

\* protosh_split_line: the tokenised buffer and the token offsets
protosh_split_line(buf) == split_loop(buf, 1, <<>>)

(***************************************************************************)
(* strtol(s, &end, 10) on a 64-bit long, and the cast (int) loffset.       *)
(* TLC's integers are 32 bits wide, so a long is kept as four 16-bit       *)
(* limbs, least significant first.                                         *)
(***************************************************************************)
Limb == 2 ^ 16

Digits == {"0", "1", "2", "3", "4", "5", "6", "7", "8", "9"}

DigitVal(c) ==
  CASE c = "0" -> 0 [] c = "1" -> 1 [] c = "2" -> 2 [] c = "3" -> 3
    [] c = "4" -> 4 [] c = "5" -> 5 [] c = "6" -> 6 [] c = "7" -> 7
    [] c = "8" -> 8 [] c = "9" -> 9

\* mag * 10 + d on the limbs; ovf is set once the value leaves 64 bits
MulAdd10(acc, d) ==
  LET m == acc.mag
      x0 == m[1] * 10 + d
      x1 == m[2] * 10 + (x0 \div Limb)
      x2 == m[3] * 10 + (x1 \div Limb)
      x3 == m[4] * 10 + (x2 \div Limb)
  IN [mag |-> <<x0 % Limb, x1 % Limb, x2 % Limb, x3 % Limb>>,
      ovf |-> acc.ovf \/ x3 \div Limb > 0]

RECURSIVE strtol_digits(_, _, _)
\* consume the digits of s from position p
strtol_digits(s, p, acc) ==
  IF p <= Len(s) /\ s[p] \in Digits
  THEN strtol_digits(s, p + 1, MulAdd10(acc, DigitVal(s[p])))
  ELSE [acc |-> acc, end |-> p]

LONG_MAX_mag == <<65535, 65535, 65535, 32767>>
LONG_MIN_mag == <<0, 0, 0, 32768>>

\* strtol(s, &end, 10): conv is FALSE when end == s (no digits consumed);
\* otherwise the long is the sign neg and the magnitude mag, clamped to
\* LONG_MIN / LONG_MAX when the digits leave the range of long
strtol(s) ==
  LET neg == Len(s) >= 1 /\ s[1] = "-"
      first == IF Len(s) >= 1 /\ s[1] \in {"-", "+"} THEN 2 ELSE 1
      r == strtol_digits(s, first, [mag |-> <<0, 0, 0, 0>>, ovf |-> FALSE])
      over == r.acc.ovf \/ (r.acc.mag[4] >= 32768
                            /\ ~(neg /\ r.acc.mag = LONG_MIN_mag))
  IN IF r.end = first
     THEN [conv |-> FALSE, neg |-> FALSE, mag |-> <<0, 0, 0, 0>>]
     ELSE [conv |-> TRUE, neg |-> neg,
           mag |-> IF over THEN (IF neg THEN LONG_MIN_mag ELSE LONG_MAX_mag)
                   ELSE r.acc.mag]

INT_MIN == -2147483647 - 1

\* offset = (int) loffset: the low 32 bits of the long, read as signed
ToInt(l) ==
  LET lo == IF l.mag[2] >= 32768
            THEN (l.mag[2] - Limb) * Limb + l.mag[1]
            ELSE l.mag[2] * Limb + l.mag[1]
  IN IF ~l.neg \/ lo = INT_MIN THEN lo ELSE 0 - lo

\* the long is greater than the int n (n >= 0)
LongGreater(l, n) ==
  /\ ~l.neg
  /\ \/ l.mag[3] > 0 \/ l.mag[4] > 0 \/ l.mag[2] >= 32768
     \/ l.mag[2] * Limb + l.mag[1] > n

(***************************************************************************)
(* The heap of strings: cell a is live from the malloc that returns it to  *)
(* the free that releases it.  fault records a free of a cell that is not  *)
(* live.                                                                   *)
(***************************************************************************)
FreeCells(heap) == { a \in Addr : ~heap[a].live }

MinOf(S) == CHOOSE a \in S : \A b \in S : a <= b

\* malloc: a cell that is not live, or NULL when the allocation fails
malloc(heap, ok) ==
  IF ok /\ FreeCells(heap) # {} THEN MinOf(FreeCells(heap)) ELSE NULL

\* strdup(s): a fresh cell holding a copy of the C string s, or NULL
strdup(heap, s, ok) ==
  LET a == malloc(heap, ok)
  IN IF a = NULL THEN [ptr |-> NULL, heap |-> heap]
     ELSE [ptr |-> a, heap |-> [heap EXCEPT ![a] = [live |-> TRUE, buf |-> s]]]

\* free(p)
free(m, p) ==
  IF p = NULL THEN m
  ELSE IF m.heap[p].live
       THEN [m EXCEPT !.heap[p] = [live |-> FALSE, buf |-> <<>>]]
       ELSE [m EXCEPT !.fault = TRUE]

(***************************************************************************)
(* The history store.  m is the memory the store lives in: the array       *)
(* history (HistoryNull before the first calloc; slots 0..MAX-1 after),    *)
(* history_len, the heap and the fault flag.                               *)
(***************************************************************************)
HistoryNull == <<>>

Slots == 0..(HISTORY_MAXITEMS - 1)

\* memmove without the shift: every slot keeps its pointer
memmove_none(h) == h

\* memmove(history, history+1, sizeof(char *) * (HISTORY_MAXITEMS - 1))
memmove_down(h) ==
  [i \in Slots |-> IF i + 1 \in Slots THEN h[i + 1] ELSE h[i]]

\* the eviction without the decrement of history_len
evict_keep_len(m) ==
  LET f == free(m, m.history[0])
  IN [f EXCEPT !.history = memmove_down(f.history)]

\* if (history_len == HISTORY_MAXITEMS) { free(history[0]); memmove(...);
\* history_len--; }
evict(m) ==
  LET f == free(m, m.history[0])
  IN [f EXCEPT !.history = memmove_down(f.history),
               !.history_len = f.history_len - 1]

\* history[history_len++] = line
store_line(m, line) ==
  [m EXCEPT !.history = [i \in Slots |-> IF i = m.history_len THEN line
                                         ELSE m.history[i]],
            !.history_len = m.history_len + 1]

\* add_to_history(input); fail names the allocation that fails, if any
add_to_history(m, input, fail) ==
  LET h0 == IF m.history = HistoryNull /\ fail # "calloc"
            THEN [i \in Slots |-> NULL] ELSE m.history
      d == strdup(m.heap, input, fail # "strdup")
      m1 == [m EXCEPT !.history = h0, !.heap = d.heap]
      m2 == IF m1.history_len = HISTORY_MAXITEMS THEN evict(m1) ELSE m1
  IN IF h0 = HistoryNull THEN [m |-> m, ret |-> 0]
     ELSE IF d.ptr = NULL THEN [m |-> [m EXCEPT !.history = h0], ret |-> 0]
     ELSE [m |-> store_line(m2, d.ptr), ret |-> 1]

RECURSIVE clear_loop(_, _)
\* for (i = 0; i < history_len; i++) free(history[i]);
clear_loop(m, i) ==
  IF i < m.history_len THEN clear_loop(free(m, m.history[i]), i + 1) ELSE m

\* the clear that frees the strings and leaves history_len as it is
clear_history_keep_len(m) == clear_loop(m, 0)

\* clear_history()
clear_history(m) == [clear_loop(m, 0) EXCEPT !.history_len = 0]

\* the text of entry i of the store
Entry(m, i) == CStr(m.heap[m.history[i]].buf)

(***************************************************************************)
(* State.                                                                  *)
(***************************************************************************)
VARIABLES
  history,      \* static char **history
  history_len,  \* static int history_len
  heap,         \* the strings malloc'ed and not yet reused
  fault,        \* a cell was freed while not live
  parent_cmd,   \* static struct command *parent_cmd
  parent_cmds,  \* static struct commands *parent_cmds
  temp_line,    \* static char *temp_line
  pc,           \* where main / protosh_loop is
  stack,        \* the commands in execution, outermost first
  cmds_live,    \* the struct commands objects that exist
  child,        \* the process protosh_launch forked
  status,       \* protosh_loop's status
  out,          \* what the last step wrote to stdout
  err,          \* what the last step wrote to stderr
  recorded,     \* the lines add_to_history stored since the last clear
  ub,           \* history[offset] was read where no entry is stored
  forks,        \* the processes forked for the line of this iteration
  child_code    \* the exit status of the child, once it has exited

vars == <<history, history_len, heap, fault, parent_cmd, parent_cmds,
          temp_line, pc, stack, cmds_live, child, status, out, err, recorded,
          ub, forks, child_code>>

ctx_vars == <<parent_cmd, parent_cmds, temp_line>>

Mem == [history |-> history, history_len |-> history_len,
        heap |-> heap, fault |-> fault]

SetMem(m) ==
  /\ history' = m.history
  /\ history_len' = m.history_len
  /\ heap' = m.heap
  /\ fault' = m.fault

mem_vars == <<history, history_len, heap, fault>>

\* argv[j] of the command of frame c, read through the token pointer
ArgStr(h, c, j) == CStrAt(h[c.line].buf, c.args[j])

\* argv of frame c (argv[0] is element 1), argc is its length
Argv(h, c) == [j \in 1..Len(c.args) |-> ArgStr(h, c, j)]

Depth == Len(stack)

Top == stack[Depth]

EXIT_SUCCESS == 0
EXIT_FAILURE == 1
\* no exit status: the child has not exited
NoCode == -1

Init ==
  /\ history = HistoryNull
  /\ history_len = 0
  /\ heap = [a \in Addr |-> [live |-> FALSE, buf |-> <<>>]]
  /\ fault = FALSE
  /\ parent_cmd = NULL
  /\ parent_cmds = NULL
  /\ temp_line = NULL
  /\ pc = "prompt"
  /\ stack = <<>>
  /\ cmds_live = {}
  /\ child = "none"
  /\ status = 1
  /\ out = <<>>
  /\ err = "none"
  /\ recorded = <<>>
  /\ ub = FALSE
  /\ forks = 0
  /\ child_code = NoCode

(***************************************************************************)
(* The return value of each builtin and of each path of protosh_history.   *)
(***************************************************************************)
\* the dispatch without the test of args[0] == NULL: an empty argument
\* list goes to the launch
protosh_execute_noempty(argv) ==
  IF Len(argv) = 0 THEN protosh_num_builtins + 1
  ELSE IF \E i \in 1..protosh_num_builtins : strcmp0(argv[1], builtin_str[i])
       THEN CHOOSE i \in 1..protosh_num_builtins :
              /\ strcmp0(argv[1], builtin_str[i])
              /\ \A j \in 1..(i - 1) : ~strcmp0(argv[1], builtin_str[j])
       ELSE protosh_num_builtins + 1

\* protosh_execute: I_empty for args[0] == NULL, the index of the builtin
\* whose name matches, or I_launch when the loop over the builtins ends
protosh_execute(argv) ==
  IF Len(argv) = 0 THEN 0
  ELSE IF \E i \in 1..protosh_num_builtins : strcmp0(argv[1], builtin_str[i])
       THEN CHOOSE i \in 1..protosh_num_builtins :
              /\ strcmp0(argv[1], builtin_str[i])
              /\ \A j \in 1..(i - 1) : ~strcmp0(argv[1], builtin_str[j])
       ELSE protosh_num_builtins + 1

\* the dispatch of a replayed line: as a line typed at the prompt
exec_commands(argv) == protosh_execute(argv)

Dispatch(k) ==
  IF k = 1 THEN protosh_execute(Argv(heap, stack[k]))
  ELSE exec_commands(Argv(heap, stack[k]))

I_empty == 0
I_launch == protosh_num_builtins + 1
I_cd == 1
I_help == 2
I_exit == 3
I_history == 4

\* if (offset > history_len)
offset_out_of_range(offset, len) == offset > len

\* protosh_history without the test end == cmd->argv[1]: the 0 that strtol
\* returns for a word without digits is used as the offset
history_path_nocheck(argv, len) ==
  IF Len(argv) = 1 THEN "list"
  ELSE IF strcmp0(argv[2], <<"-", "c">>) THEN "clear"
  ELSE IF offset_out_of_range(ToInt(strtol(argv[2])), len) THEN "range_error"
  ELSE "replay"

\* the path protosh_history takes for argv with the store at length len
history_path(argv, len) ==
  IF Len(argv) = 1 THEN "list"
  ELSE IF strcmp0(argv[2], <<"-", "c">>) THEN "clear"
  ELSE LET l == strtol(argv[2])
       IN IF ~l.conv THEN "parse_error"
          ELSE IF offset_out_of_range(ToInt(l), len) THEN "range_error"
          ELSE "replay"

\* offset = (int) loffset
history_offset(argv) == ToInt(strtol(argv[2]))

\* the value protosh_history returns on each path
history_ret(path) ==
  CASE path = "list" -> 1
    [] path = "clear" -> 0
    [] path = "parse_error" -> 1
    [] path = "range_error" -> 1
    [] path = "dup_fail" -> 1
    [] path = "replayed" -> 0

protosh_cd_ret == 1
protosh_help_ret == 1
protosh_exit_ret == 0
protosh_launch_ret == 1

Running == pc = "iter" /\ Depth >= 1

AtExecute(k) == Running /\ k = Depth /\ stack[k].pc = "execute"

\* frame k returns r to its caller
Return(k, r) == stack' = [stack EXCEPT ![k].pc = "done", ![k].ret = r]

(***************************************************************************)
(* protosh_loop.                                                           *)
(***************************************************************************)
Frame(a, tokens, text) ==
  [line |-> a, args |-> tokens, pc |-> "execute", ret |-> -1,
   src |-> text, rec |-> FALSE]

\* line = protosh_read_line(); args = protosh_split_line(line);
ReadLine(l, ok) ==
  /\ pc = "prompt"
  /\ LET a == malloc(heap, ok)
         sp == protosh_split_line(l)
     IN IF a = NULL
        THEN /\ pc' = "exit_failure"
             /\ err' = "allocation error"
             /\ UNCHANGED <<heap, stack>>
        ELSE /\ pc' = "iter"
             /\ err' = "none"
             /\ heap' = [heap EXCEPT ![a] = [live |-> TRUE, buf |-> sp.buf]]
             /\ stack' = <<Frame(a, sp.tokens, l)>>
  /\ out' = <<>>
  /\ forks' = 0
  /\ UNCHANGED <<history, history_len, fault, ctx_vars, cmds_live, child,
                 status, recorded,
                 ub, child_code>>

\* protosh_read_line: c == EOF
ReadEOF ==
  /\ pc = "prompt"
  /\ pc' = "exit_success"
  /\ out' = <<>>
  /\ err' = "none"
  /\ UNCHANGED <<mem_vars, ctx_vars, stack, cmds_live, child, status, recorded,
                 ub, forks, child_code>>

\* status = protosh_execute(args) has returned: free(line); free(args);
\* while (status)
LoopEnd ==
  /\ pc = "iter"
  /\ Depth = 1
  /\ stack[1].pc = "done"
  /\ SetMem(free(Mem, stack[1].line))
  /\ status' = stack[1].ret
  /\ pc' = IF stack[1].ret # 0 THEN "prompt" ELSE "returned"
  /\ stack' = <<>>
  /\ forks' = 0
  /\ out' = <<>>
  /\ err' = "none"
  /\ UNCHANGED <<ctx_vars, cmds_live, child, recorded,
                 ub, child_code>>

(***************************************************************************)
(* The history store called directly: add_to_history has no call site in   *)
(* main.c, clear_history has one; both are operations of the store that a  *)
(* caller may invoke between two commands.                                 *)
(***************************************************************************)
AllocFail == {"none", "calloc", "strdup"}

Record(l, fail) ==
  /\ pc = "prompt"
  /\ Len(recorded) < MaxRecords
  /\ LET r == add_to_history(Mem, l, fail)
     IN /\ SetMem(r.m)
        /\ recorded' = IF r.ret = 1 THEN Append(recorded, l) ELSE recorded
        /\ err' = IF r.ret = 0 /\ r.m.history = HistoryNull
                  THEN "memory alloc error" ELSE "none"
  /\ out' = <<>>
  /\ UNCHANGED <<ctx_vars, pc, stack, cmds_live, child, status,
                 ub, forks, child_code>>

Clear ==
  /\ pc = "prompt"
  /\ SetMem(clear_history(Mem))
  /\ recorded' = <<>>
  /\ out' = <<>>
  /\ err' = "none"
  /\ UNCHANGED <<ctx_vars, pc, stack, cmds_live, child, status,
                 ub, forks, child_code>>

(***************************************************************************)
(* protosh_execute and the builtins cd, help, exit.                        *)
(***************************************************************************)
\* if (args[0] == NULL) return 1;
ExecEmpty(k) ==
  /\ AtExecute(k)
  /\ Dispatch(k) = I_empty
  /\ Return(k, 1)
  /\ out' = <<>>
  /\ err' = "none"
  /\ UNCHANGED <<mem_vars, ctx_vars, pc, cmds_live, child, status, recorded,
                 ub, forks, child_code>>

\* protosh_cd; ok is the outcome of chdir
ExecCd(k, ok) ==
  /\ AtExecute(k)
  /\ Dispatch(k) = I_cd
  /\ err' = IF Len(stack[k].args) = 1 THEN "expected argument to cd"
            ELSE IF ok THEN "none" ELSE "perror"
  /\ Return(k, protosh_cd_ret)
  /\ out' = <<>>
  /\ UNCHANGED <<mem_vars, ctx_vars, pc, cmds_live, child, status, recorded,
                 ub, forks, child_code>>

\* protosh_help
ExecHelp(k) ==
  /\ AtExecute(k)
  /\ Dispatch(k) = I_help
  /\ out' = builtin_str
  /\ err' = "none"
  /\ Return(k, protosh_help_ret)
  /\ UNCHANGED <<mem_vars, ctx_vars, pc, cmds_live, child, status, recorded,
                 ub, forks, child_code>>

\* protosh_exit
ExecExit(k) ==
  /\ AtExecute(k)
  /\ Dispatch(k) = I_exit
  /\ Return(k, protosh_exit_ret)
  /\ out' = <<>>
  /\ err' = "none"
  /\ UNCHANGED <<mem_vars, ctx_vars, pc, cmds_live, child, status, recorded,
                 ub, forks, child_code>>

(***************************************************************************)
(* protosh_launch and the child it forks.                                  *)
(***************************************************************************)
\* the launch without the branch pid < 0: a failed fork goes on to the wait
fork_branch_noerr(ok) == "parent"

\* the branch protosh_launch takes in the interpreter after pid = fork()
fork_branch(ok) == IF ok THEN "parent" ELSE "error"

\* pid = fork(); a failed fork is reported and the launch returns
Fork(k, ok) ==
  /\ AtExecute(k)
  /\ Dispatch(k) = I_launch
  /\ child = "none"
  /\ child' = IF ok THEN "forked" ELSE "none"
  /\ forks' = IF ok THEN forks + 1 ELSE forks
  /\ IF fork_branch(ok) = "parent"
     THEN /\ stack' = [stack EXCEPT ![k].pc = "wait"]
          /\ err' = "none"
     ELSE /\ Return(k, protosh_launch_ret)
          /\ err' = "perror"
  /\ out' = <<>>
  /\ UNCHANGED <<mem_vars, ctx_vars, pc, cmds_live, status, recorded,
                 ub, child_code>>

\* the child without the exit: it returns from protosh_launch into the
\* loop of the interpreter it is a copy of
exec_failed_returns == [child |-> "interpreter", code |-> NoCode]

\* perror("protosh"); exit(EXIT_FAILURE);
exec_failed == [child |-> "exited", code |-> EXIT_FAILURE]

\* the child: execvp replaces the image, or fails, is reported, and the
\* child leaves through exit(EXIT_FAILURE)
ChildExec(ok) ==
  /\ child = "forked"
  /\ child' = IF ok THEN "running" ELSE exec_failed.child
  /\ child_code' = IF ok THEN NoCode ELSE exec_failed.code
  /\ err' = IF ok THEN "none" ELSE "perror"
  /\ out' = <<>>
  /\ UNCHANGED <<mem_vars, ctx_vars, pc, stack, cmds_live, status, recorded,
                 ub, forks>>

\* the program the child runs stops, continues, exits or is killed
ChildStep(to, code) ==
  /\ \/ child = "running" /\ to \in {"stopped", "exited", "signaled"}
     \/ child \in {"stopped", "stop_reported"} /\ to \in {"running", "signaled"}
  /\ child' = to
  /\ child_code' = IF to = "exited" THEN code ELSE NoCode
  /\ to # "exited" => code = EXIT_SUCCESS
  /\ out' = <<>>
  /\ err' = "none"
  /\ UNCHANGED <<mem_vars, ctx_vars, pc, stack, cmds_live, status, recorded,
                 ub, forks>>

\* the wait that one waitpid ends, whatever it reports
wait_once(st) == FALSE

\* while (!WIFEXITED(status) && !WIFSIGNALED(status))
wait_again(st) == st # "exited" /\ st # "signaled"

\* do { waitpid(pid, &status, WUNTRACED); }
\* while (!WIFEXITED(status) && !WIFSIGNALED(status));
Wait(k) ==
  /\ Running
  /\ k = Depth
  /\ stack[k].pc = "wait"
  /\ child \in {"stopped", "exited", "signaled"}
  /\ IF wait_again(child)
     THEN /\ child' = "stop_reported"
          /\ UNCHANGED <<stack, child_code>>
     ELSE /\ child' = IF child = "stopped" THEN "stop_reported" ELSE "none"
          /\ child_code' = IF child = "stopped" THEN child_code ELSE NoCode
          /\ Return(k, protosh_launch_ret)
  /\ out' = <<>>
  /\ err' = "none"
  /\ UNCHANGED <<mem_vars, ctx_vars, pc, cmds_live, status, recorded,
                 ub, forks>>

(***************************************************************************)
(* protosh_history.                                                        *)
(***************************************************************************)
\* protosh_execute calls builtin_func[3] with args; protosh_history reads
\* them as cmd->argc and cmd->argv (struct command is not in main.c), and
\* cmds is the pipeline the command belongs to.  Frame k stands for both:
\* its command and its pipeline have the identity k.
AtHistory(k) == AtExecute(k) /\ Dispatch(k) = I_history

Path(k) == history_path(Argv(heap, stack[k]), history_len)

\* history[offset] can be read and points to a string
ValidRead(m, offset) ==
  /\ m.history # HistoryNull
  /\ offset \in Slots
  /\ m.history[offset] # NULL
  /\ m.heap[m.history[offset]].live

\* what strdup can read at history[offset]: the string the slot points to,
\* or, when the read is undefined, a fault or any other string
SIGSEGV == <<"SIGSEGV">>

ReadOutcomes(m, offset) ==
  IF ValidRead(m, offset) THEN {Entry(m, offset)}
  ELSE GarbageLines \cup {SIGSEGV}

\* the replay without the copy: line is the stored string itself
replay_nodup(h, p, text, ok) == [ptr |-> p, heap |-> h]

\* char *line = strdup(history[offset]);
replay_dup(h, p, text, ok) == strdup(h, text, ok)

\* struct commands *new_commands = parse_commands_with_pipes(line);
parse_commands_with_pipes(buf) == protosh_split_line(buf)

\* the reset that leaves temp_line as it is
ctx_reset_partial ==
  [parent_cmd |-> NULL, temp_line |-> temp_line, parent_cmds |-> NULL]

\* the ReplayContext after the reset that follows the replay
ctx_reset == [parent_cmd |-> NULL, temp_line |-> NULL, parent_cmds |-> NULL]

\* cleanup_commands(new_commands)
cleanup_commands(live, id) == live \ {id}

\* the listing that numbers the entries from 1
history_list_from1(m) ==
  [i \in 1..m.history_len |-> <<i, Entry(m, i - 1)>>]

\* for (i = 0; i < history_len; i++) printf("%d %s\n", i, history[i]);
history_list(m) ==
  [i \in 1..m.history_len |-> <<i - 1, Entry(m, i - 1)>>]

\* history with no argument
HistoryList(k) ==
  /\ AtHistory(k)
  /\ Path(k) = "list"
  /\ out' = history_list(Mem)
  /\ err' = "none"
  /\ Return(k, history_ret("list"))
  /\ UNCHANGED <<mem_vars, ctx_vars, pc, cmds_live, child, status, recorded,
                 ub, forks, child_code>>

\* history -c
HistoryClear(k) ==
  /\ AtHistory(k)
  /\ Path(k) = "clear"
  /\ SetMem(clear_history(Mem))
  /\ recorded' = <<>>
  /\ Return(k, history_ret("clear"))
  /\ out' = <<>>
  /\ err' = "none"
  /\ UNCHANGED <<ctx_vars, pc, cmds_live, child, status,
                 ub, forks, child_code>>

\* if (end == cmd->argv[1])
HistoryParseError(k) ==
  /\ AtHistory(k)
  /\ Path(k) = "parse_error"
  /\ err' = "error: cannot convert to number"
  /\ Return(k, history_ret("parse_error"))
  /\ out' = <<>>
  /\ UNCHANGED <<mem_vars, ctx_vars, pc, cmds_live, child, status, recorded,
                 ub, forks, child_code>>

\* if (offset > history_len)
HistoryRangeError(k) ==
  /\ AtHistory(k)
  /\ Path(k) = "range_error"
  /\ err' = "error: offset > number of items"
  /\ Return(k, history_ret("range_error"))
  /\ out' = <<>>
  /\ UNCHANGED <<mem_vars, ctx_vars, pc, cmds_live, child, status, recorded,
                 ub, forks, child_code>>

\* the read of history[offset] faults
HistorySegv(k) ==
  /\ AtHistory(k)
  /\ Path(k) = "replay"
  /\ SIGSEGV \in ReadOutcomes(Mem, history_offset(Argv(heap, stack[k])))
  /\ pc' = "crashed"
  /\ ub' = TRUE
  /\ out' = <<>>
  /\ err' = "none"
  /\ UNCHANGED <<mem_vars, ctx_vars, stack, cmds_live, child, status, recorded, forks, child_code>>

\* the replay would need one frame more than the stack holds
HistoryStackExhausted(k) ==
  /\ AtHistory(k)
  /\ Path(k) = "replay"
  /\ Depth >= MaxDepth
  /\ pc' = "stack_exhausted"
  /\ out' = <<>>
  /\ err' = "none"
  /\ UNCHANGED <<mem_vars, ctx_vars, stack, cmds_live, child, status, recorded,
                 ub, forks, child_code>>

\* line = strdup(history[offset]); if (line == NULL) return 1;
\* new_commands = parse_commands_with_pipes(line); parent_cmd = cmd;
\* temp_line = line; parent_cmds = cmds; exec_commands(new_commands) starts
HistoryReplay(k, text, ok) ==
  /\ AtHistory(k)
  /\ Path(k) = "replay"
  /\ Depth < MaxDepth
  /\ LET offset == history_offset(Argv(heap, stack[k]))
         p == IF ValidRead(Mem, offset) THEN history[offset] ELSE NULL
         d == replay_dup(heap, p, text, ok)
         sp == parse_commands_with_pipes(d.heap[d.ptr].buf)
     IN /\ text \in ReadOutcomes(Mem, offset) \ {SIGSEGV}
        /\ ub' = (ub \/ ~ValidRead(Mem, offset))
        /\ IF d.ptr = NULL
           THEN /\ Return(k, history_ret("dup_fail"))
                /\ UNCHANGED <<heap, ctx_vars, cmds_live>>
           ELSE /\ heap' = [d.heap EXCEPT ![d.ptr].buf = sp.buf]
                /\ parent_cmd' = k
                /\ temp_line' = d.ptr
                /\ parent_cmds' = k
                /\ cmds_live' = cmds_live \cup {k + 1}
                /\ stack' = Append([stack EXCEPT ![k].pc = "replay"],
                                   Frame(d.ptr, sp.tokens, text))
  /\ out' = <<>>
  /\ err' = "none"
  /\ UNCHANGED <<history, history_len, fault, pc, child, status, recorded, forks, child_code>>

\* exec_commands(new_commands) has returned: cleanup_commands(new_commands);
\* free(line); parent_cmd = NULL; temp_line = NULL; parent_cmds = NULL;
\* return 0;
HistoryReplayEnd(k) ==
  /\ Running
  /\ Depth = k + 1
  /\ stack[k].pc = "replay"
  /\ stack[k + 1].pc = "done"
  /\ cmds_live' = cleanup_commands(cmds_live, k + 1)
  /\ SetMem(free(Mem, stack[k + 1].line))
  /\ parent_cmd' = ctx_reset.parent_cmd
  /\ temp_line' = ctx_reset.temp_line
  /\ parent_cmds' = ctx_reset.parent_cmds
  /\ stack' = [SubSeq(stack, 1, k) EXCEPT ![k].pc = "done",
                                          ![k].ret = history_ret("replayed")]
  /\ out' = <<>>
  /\ err' = "none"
  /\ UNCHANGED <<pc, child, status, recorded,
                 ub, forks, child_code>>

\* the replayed line is appended to the store, before or after it runs
\* (the append is made by the code that runs the replayed line, which is
\* not in main.c)
ReplayRecord(k, fail) ==
  /\ Running
  /\ k = Depth
  /\ k >= 2
  /\ stack[k].pc \in {"execute", "done"}
  /\ ~stack[k].rec
  /\ Len(recorded) < MaxRecords
  /\ LET r == add_to_history(Mem, stack[k].src, fail)
     IN /\ SetMem(r.m)
        /\ recorded' = IF r.ret = 1 THEN Append(recorded, stack[k].src)
                       ELSE recorded
  /\ stack' = [stack EXCEPT ![k].rec = TRUE]
  /\ out' = <<>>
  /\ err' = "none"
  /\ UNCHANGED <<ctx_vars, pc, cmds_live, child, status,
                 ub, forks, child_code>>

(***************************************************************************)
(* The specification.                                                      *)
(***************************************************************************)
Levels == 1..MaxDepth

Next ==
  \/ \E l \in InputLines, ok \in BOOLEAN : ReadLine(l, ok)
  \/ ReadEOF
  \/ LoopEnd
  \/ \E l \in RecordLines, fail \in AllocFail : Record(l, fail)
  \/ Clear
  \/ \E k \in Levels : ExecEmpty(k)
  \/ \E k \in Levels, ok \in BOOLEAN : ExecCd(k, ok)
  \/ \E k \in Levels : ExecHelp(k)
  \/ \E k \in Levels : ExecExit(k)
  \/ \E k \in Levels, ok \in BOOLEAN : Fork(k, ok)
  \/ \E ok \in BOOLEAN : ChildExec(ok)
  \/ \E to \in {"running", "stopped", "exited", "signaled"},
        code \in {EXIT_SUCCESS, EXIT_FAILURE} : ChildStep(to, code)
  \/ \E k \in Levels : Wait(k)
  \/ \E k \in Levels : HistoryList(k)
  \/ \E k \in Levels : HistoryClear(k)
  \/ \E k \in Levels : HistoryParseError(k)
  \/ \E k \in Levels : HistoryRangeError(k)
  \/ \E k \in Levels : HistorySegv(k)
  \/ \E k \in Levels : HistoryStackExhausted(k)
  \/ \E k \in Levels, text \in GarbageLines \cup RecordLines \cup InputLines,
        ok \in BOOLEAN : HistoryReplay(k, text, ok)
  \/ \E k \in Levels : HistoryReplayEnd(k)
  \/ \E k \in Levels, fail \in AllocFail : ReplayRecord(k, fail)

Spec == Init /\ [][Next]_vars

TypeOK ==
  /\ history_len \in 0..HISTORY_MAXITEMS
  /\ pc \in {"prompt", "iter", "returned", "exit_success", "exit_failure",
             "crashed", "stack_exhausted"}
  /\ Depth <= MaxDepth
  /\ fault \in BOOLEAN
  /\ forks \in 0..1
  /\ child \in {"none", "forked", "running", "stopped", "stop_reported",
                 "exited", "signaled"}
  /\ child_code \in {NoCode, EXIT_SUCCESS, EXIT_FAILURE}

(***************************************************************************)
(* Properties.                                                             *)
(***************************************************************************)
Min(a, b) == IF a <= b THEN a ELSE b

\* C1: in every state reached by add_to_history, clear_history and
\* protosh_history calls, 0 <= history_len <= HISTORY_MAXITEMS.
C1_LenWithinCapacity == 0 <= history_len /\ history_len <= HISTORY_MAXITEMS

\* a record at full capacity has evicted an entry and the store is full again
C1_Witness ==
  /\ history_len = HISTORY_MAXITEMS
  /\ Len(recorded) = HISTORY_MAXITEMS + 1

\* the store holds the last min(k, HISTORY_MAXITEMS) recorded lines, oldest
\* first, each in a live string
StoreIsTailOfRecorded ==
  /\ history_len = Min(Len(recorded), HISTORY_MAXITEMS)
  /\ \A i \in 0..(history_len - 1) :
       /\ ValidRead(Mem, i)
       /\ Entry(Mem, i) = recorded[Len(recorded) - history_len + i + 1]

\* a successful add_to_history at full capacity: the string of slot 0 is
\* released, the pointer of slot i moves to slot i-1, and the new line is
\* at index HISTORY_MAXITEMS-1
EvictionStep ==
  (history_len = HISTORY_MAXITEMS /\ Len(recorded') = Len(recorded) + 1) =>
    /\ history_len' = HISTORY_MAXITEMS
    /\ ~heap'[history[0]].live
    /\ \A i \in 1..(HISTORY_MAXITEMS - 1) :
         /\ history'[i - 1] = history[i]
         /\ heap'[history[i]] = heap[history[i]]
    /\ ~heap[history'[HISTORY_MAXITEMS - 1]].live
    /\ Entry([history |-> history', heap |-> heap'], HISTORY_MAXITEMS - 1)
         = recorded'[Len(recorded')]

\* C2: add_to_history at full capacity removes exactly entry 0, moves entry
\* i to i-1 and puts the new line last; after k successful records with no
\* clear in between the store holds the last min(k, HISTORY_MAXITEMS) lines,
\* oldest first.
C2_FifoEviction == []StoreIsTailOfRecorded /\ [][EvictionStep]_vars

\* one line more than the capacity was recorded: the first one is gone
C2_Witness ==
  /\ Len(recorded) = HISTORY_MAXITEMS + 1
  /\ history_len = HISTORY_MAXITEMS
  /\ Entry(Mem, 0) = recorded[2]
  /\ recorded[1] # recorded[2]

\* argv of a line, tokenised on its own
ArgvOfText(text) ==
  LET sp == protosh_split_line(text)
  IN [j \in 1..Len(sp.tokens) |-> CStrAt(sp.buf, sp.tokens[j])]

\* while the replayed line of frame k executes, its tokens are read from a
\* live string that belongs to the frame alone and still spell the text the
\* replay read
ReplayedTextIntact ==
  \A k \in 2..Depth :
    /\ heap[stack[k].line].live
    /\ \A i \in 0..(history_len - 1) : history[i] # stack[k].line
    /\ \A j \in 1..(k - 1) : stack[j].line # stack[k].line
    /\ Argv(heap, stack[k]) = ArgvOfText(stack[k].src)

\* the step that starts a replay of a stored entry: the line that starts
\* to execute is the text of entry N in the state of the call
ReplayStartStep ==
  (/\ Depth >= 1
   /\ Depth' = Depth + 1
   /\ ValidRead(Mem, history_offset(Argv(heap, Top)))) =>
    LET text == Entry(Mem, history_offset(Argv(heap, Top)))
    IN /\ stack'[Depth'].src = text
       /\ Argv(heap', stack'[Depth']) = ArgvOfText(text)

\* C3: replaying index N executes the text that was stored at index N when
\* history N was called; the text is duplicated first, so a clear or an
\* eviction while the replayed line executes neither changes nor
\* invalidates it.
C3_ReplayRunsStoredText == []ReplayedTextIntact /\ [][ReplayStartStep]_vars

\* a replayed history -c has cleared the store, its own entry included,
\* and the frame of the replay is still on the stack
C3_Witness ==
  /\ Depth >= 2
  /\ Top.pc = "done"
  /\ Top.src = l_hist_c
  /\ history_len = 0
  /\ heap[Top.line].live

\* the command of frame c is history <N>: an argument that is not -c
IsHistoryN(h, c) ==
  LET a == Argv(h, c)
  IN Len(a) >= 2 /\ a[1] = w_history /\ a[2] # <<"-", "c">>

\* C4: only exit signals termination: a command that returns 'terminate'
\* (0) to protosh_loop is the builtin exit.
C4_OnlyExitTerminates ==
  (pc = "iter" /\ Depth = 1 /\ stack[1].pc = "done" /\ stack[1].ret = 0)
    => Dispatch(1) = I_exit

\* C5: the loop iteration that read a non-empty line L ends with L as the
\* newest entry of the store.
C5_LineRecorded ==
  [][(/\ pc = "iter" /\ pc' # "iter"
      /\ Depth = 1 /\ stack[1].pc = "done"
      /\ Len(stack[1].args) > 0) =>
       /\ history_len' >= 1
       /\ history' # HistoryNull
       /\ Entry([history |-> history', heap |-> heap'], history_len' - 1)
            = stack[1].src]_vars

\* the history <N> invocation of frame k returns in this step
HistoryNReturns(k) ==
  /\ k <= Depth
  /\ stack[k].pc \in {"execute", "replay"}
  /\ Dispatch(k) = I_history
  /\ IsHistoryN(heap, stack[k])
  /\ k <= Depth'
  /\ stack'[k].pc = "done"

CtxEmpty == parent_cmd = NULL /\ parent_cmds = NULL /\ temp_line = NULL

C7_CtxRestoredAfterNested ==
  \A k \in Levels :
    (/\ ~ub
     /\ Depth = k + 1
     /\ stack[k].pc = "replay"
     /\ stack[k + 1].pc = "done"
     /\ IsHistoryN(heap, stack[k + 1])) =>
      /\ parent_cmd = k
      /\ parent_cmds = k
      /\ temp_line = stack[k + 1].line

\* frame k leaves protosh_execute in this step
LeavesExecute(k) ==
  /\ AtExecute(k)
  /\ Dispatch(k) = I_history
  /\ IsHistoryN(heap, stack[k])
  /\ \/ pc' # pc
     \/ Depth' # Depth
     \/ stack'[k].pc # "execute"

\* what an out-of-range or malformed argument must leave alone
NoAction(k) ==
  /\ UNCHANGED mem_vars
  /\ UNCHANGED ctx_vars
  /\ UNCHANGED cmds_live
  /\ pc' = pc
  /\ Depth' = Depth
  /\ stack'[k].pc = "done"
  /\ stack'[k].ret = 1

\* C8: history <N> with N greater than the length of the store reports the
\* range error and does nothing else (in a run where every read of the
\* store was defined).
C8_RangeError ==
  [][\A k \in Levels :
       (/\ LeavesExecute(k)
        /\ ~ub'
        /\ strtol(Argv(heap, stack[k])[2]).conv
        /\ LongGreater(strtol(Argv(heap, stack[k])[2]), history_len)) =>
         /\ NoAction(k)
         /\ err' = "error: offset > number of items"]_vars

\* the word has an integer at its start: an optional sign, then a digit
HasLeadingInteger(w) ==
  \/ Len(w) >= 1 /\ w[1] \in Digits
  \/ Len(w) >= 2 /\ w[1] \in {"-", "+"} /\ w[2] \in Digits

\* C9: history <arg>, arg not -c and without a leading integer, reports
\* the parse error, leaves the store alone, replays nothing and returns
\* 'continue'.
C9_ParseError ==
  [][\A k \in Levels :
       (/\ LeavesExecute(k)
        /\ ~HasLeadingInteger(Argv(heap, stack[k])[2])) =>
         /\ NoAction(k)
         /\ err' = "error: cannot convert to number"]_vars

\* history -x typed with a non-empty store has returned with the parse error
C9_Witness ==
  /\ Depth >= 1
  /\ Top.pc = "done"
  /\ IsHistoryN(heap, Top)
  /\ ~HasLeadingInteger(Argv(heap, Top)[2])
  /\ err = "error: cannot convert to number"
  /\ history_len > 0

\* C10: history -c leaves the store at length 0 and the interpreter running,
\* and the history that follows lists no entry.
C10_ClearThenList ==
  [][/\ (/\ pc = "iter" /\ pc' # "iter"
         /\ Depth = 1 /\ stack[1].pc = "done"
         /\ Argv(heap, stack[1]) = <<w_history, <<"-", "c">> >>) =>
          (history_len' = 0 /\ pc' = "prompt")
     /\ (/\ Depth = 1 /\ AtExecute(1)
         /\ Argv(heap, stack[1]) = <<w_history>>
         /\ history_len = 0
         /\ stack'[1].pc = "done") => out' = <<>>]_vars

\* frame k is at protosh_execute and leaves it in this step
Leaves(k) ==
  /\ AtExecute(k)
  /\ \/ pc' # pc
     \/ Depth' # Depth
     \/ stack'[k].pc # "execute"

\* C11: history with no argument writes history_len lines, the i-th being
\* "<i> <text of entry i>" for i = 0..history_len-1 in the order the lines
\* were recorded, changes neither the entries nor the length, and returns
\* 'continue'.
C11_ListIsFrameOnly ==
  [][\A k \in Levels :
       (Leaves(k) /\ Argv(heap, stack[k]) = <<w_history>>) =>
         /\ Len(out') = history_len
         /\ \A i \in 0..(history_len - 1) :
              out'[i + 1] =
                <<i, recorded[Len(recorded) - history_len + i + 1]>>
         /\ UNCHANGED mem_vars
         /\ UNCHANGED recorded
         /\ stack'[k].pc = "done"
         /\ stack'[k].ret = 1]_vars

\* a full store that has evicted an entry was listed
C11_Witness ==
  /\ Depth >= 1
  /\ Top.pc = "done"
  /\ Argv(heap, Top) = <<w_history>>
  /\ Len(out) = HISTORY_MAXITEMS
  /\ Len(recorded) = HISTORY_MAXITEMS + 1
  /\ out[1] = <<0, recorded[2]>>

\* a child exists exactly while the frame that launched it is in the wait
ChildIsWaitedFor ==
  /\ pc = "prompt" => child = "none"
  /\ \A k \in 1..Depth : stack[k].pc = "wait" => (k = Depth /\ child # "none")
  /\ child # "none" => (Depth >= 1 /\ Top.pc = "wait")

\* the launch of frame k returns only from a child that has exited or was
\* terminated by a signal
WaitEndsAtTerminal ==
  \A k \in 1..Depth :
    (stack[k].pc = "wait" /\ (Depth' < k \/ stack'[k].pc # "wait")) =>
      /\ child \in {"exited", "signaled"}
      /\ child' = "none"

\* C12: once a process is spawned the interpreter does not return from the
\* launch, and so does not read the next line, until the child has exited
\* or was terminated by a signal; a report that it stopped does not end
\* the wait.
C12_WaitsForTermination == []ChildIsWaitedFor /\ [][WaitEndsAtTerminal]_vars

\* waitpid has reported the child as stopped and the launch still waits
C12_Witness ==
  /\ Depth >= 1
  /\ Top.pc = "wait"
  /\ child = "stop_reported"

\* the pipe delimiter and the number of stages a line has when it is cut
\* at each delimiter
PIPE_DELIM == "|"

Stages(text) == 1 + Cardinality({ i \in 1..Len(text) : text[i] = PIPE_DELIM })

\* C13: a line of N >= 2 stages separated by the pipe delimiter has, when
\* its command has returned to the loop with every process creation having
\* succeeded, spawned exactly one process per stage (N processes).
C13_OneProcessPerStage ==
  ( /\ pc = "iter"
    /\ Depth = 1
    /\ stack[1].pc = "done"
    /\ Stages(stack[1].src) >= 2
    /\ err # "perror" ) => forks = Stages(stack[1].src)

\* the four names the interpreter handles itself
IsBuiltinName(w) == w \in {w_cd, w_help, w_exit, w_history}

\* the command typed at the prompt is one stage of at least one word
SingleStage ==
  /\ Depth >= 1
  /\ Len(stack[1].args) >= 1
  /\ Stages(stack[1].src) = 1

\* the dispatch of the typed command forks nothing for a builtin name and
\* attempts exactly one fork for any other name
DispatchForks ==
  (Leaves(1) /\ SingleStage) =>
    IF IsBuiltinName(Argv(heap, stack[1])[1])
    THEN /\ forks' = forks
         /\ child' = "none"
         /\ Depth' >= 1 => stack'[1].pc # "wait"
    ELSE \/ /\ forks' = forks + 1
            /\ child' = "forked"
            /\ stack'[1].pc = "wait"
         \/ /\ err' = "perror"
            /\ forks' = forks
            /\ child' = "none"
            /\ stack'[1].pc = "done"

\* a process is being waited for only under a name that is not a builtin,
\* and it is the only one the command has spawned
OneForkPerCommand ==
  (SingleStage /\ Depth = 1) =>
    /\ stack[1].pc = "wait" => (forks = 1 /\ ~IsBuiltinName(Argv(heap, stack[1])[1]))
    /\ ~IsBuiltinName(Argv(heap, stack[1])[1]) => forks <= 1
    /\ stack[1].pc = "execute" => forks = 0

\* C14: for a single-stage command a process is spawned if and only if the
\* first word is not an exact, case-sensitive match of cd, help, exit or
\* history: a builtin name runs in the interpreter and forks nothing, any
\* other non-empty command forks exactly one process.
C14_ForkIffNotBuiltin == []OneForkPerCommand /\ [][DispatchForks]_vars

\* `Exit` differs from the builtin `exit` in case only, and is spawned
C14_Witness ==
  /\ Depth = 1
  /\ stack[1].src = l_Exit
  /\ stack[1].pc = "wait"
  /\ child = "forked"
  /\ forks = 1

\* the command typed at the prompt has no argument word
EmptyArgs == Depth = 1 /\ Len(stack[1].args) = 0

\* executing it changes nothing and returns 1
EmptyIsNoOp ==
  (Leaves(1) /\ EmptyArgs) =>
    /\ UNCHANGED <<mem_vars, ctx_vars, recorded, forks, child, child_code, pc>>
    /\ out' = <<>>
    /\ err' = "none"
    /\ stack'[1].pc = "done"
    /\ stack'[1].ret = 1

\* and the loop goes on to the next prompt with the store as it was
EmptyContinues ==
  (EmptyArgs /\ pc = "iter" /\ stack[1].pc = "done" /\ Depth' # Depth) =>
    /\ pc' = "prompt"
    /\ UNCHANGED <<history, history_len, recorded, ctx_vars, forks, child>>

\* C15: executing a command whose argument list is empty (an empty or
\* whitespace-only line) is a no-op: no process is spawned, no builtin
\* handler runs, the history store is unchanged, and the interpreter
\* continues.
C15_EmptyIsNoOp == [][EmptyIsNoOp /\ EmptyContinues]_vars

\* a whitespace-only line has been executed over a store that holds a line
C15_Witness ==
  /\ Depth = 1
  /\ stack[1].src = l_blank
  /\ Len(stack[1].args) = 0
  /\ stack[1].pc = "done"
  /\ stack[1].ret = 1
  /\ history_len > 0

\* frame k calls protosh_launch and fork creates no child
ForkFails(k) ==
  /\ Leaves(k)
  /\ Dispatch(k) = I_launch
  /\ child' = "none"

\* the failure is reported, the launch does not wait and returns 1, and
\* neither the store nor the replay context changes
ForkFailureIsReported ==
  \A k \in Levels :
    ForkFails(k) =>
      /\ err' = "perror"
      /\ stack'[k].pc = "done"
      /\ stack'[k].ret = 1
      /\ forks' = forks
      /\ UNCHANGED <<mem_vars, ctx_vars, recorded, pc, cmds_live, child_code>>

\* the loop goes from a launch that returned to the next prompt
LaunchContinues ==
  ( /\ pc = "iter"
    /\ Depth = 1
    /\ stack[1].pc = "done"
    /\ Dispatch(1) = I_launch
    /\ Depth' = 0 ) => pc' = "prompt"

\* C16: when process creation (fork) fails, the failure is reported, no
\* child is waited on, no other state (history store, replay context)
\* changes, and the launch returns 'continue' so that the interpreter loop
\* goes on to the next prompt.
C16_ForkFailure == [][ForkFailureIsReported /\ LaunchContinues]_vars

\* a launch has returned from a failed fork over a store that holds a line
C16_Witness ==
  /\ Depth >= 1
  /\ Top.pc = "done"
  /\ Top.ret = 1
  /\ Dispatch(Depth) = I_launch
  /\ err = "perror"
  /\ forks = 0
  /\ child = "none"
  /\ history_len > 0

\* frame k runs a replayed line that is `history <N>` and entry N of the
\* store is this very line: executing it starts the same replay again,
\* one frame deeper, with the store and the line as they are now
ReplaysItself(k) ==
  /\ k >= 2
  /\ AtHistory(k)
  /\ Path(k) = "replay"
  /\ LET offset == history_offset(Argv(heap, stack[k]))
     IN /\ ValidRead(Mem, offset)
        /\ Entry(Mem, offset) = stack[k].src

\* C17: every `history <N>` that starts a replay eventually returns
\* control to its caller, for every store content, including stores in
\* which a recorded line is itself a `history <M>` command. A replay that
\* returns never runs a line that replays itself, so no run without an
\* undefined read reaches such a frame.
C17_ReplayReturns ==
  ~ub => \A k \in 1..Depth : ~ReplaysItself(k)

\* the child never runs the code of the interpreter
OneInterpreter == child # "interpreter"

\* execvp has failed in the child: the step that takes the child out of
\* "forked" without a program running in it
ExecFails == child = "forked" /\ child' \notin {"forked", "running"}

\* the child reports, ends with a status that is not 0, and the parent is
\* still in the wait of its launch
ExecFailureEndsChild ==
  ExecFails =>
    /\ err' = "perror"
    /\ child' = "exited"
    /\ child_code' # NoCode
    /\ child_code' # EXIT_SUCCESS
    /\ Depth >= 1
    /\ Top.pc = "wait"
    /\ UNCHANGED <<stack, pc, mem_vars, ctx_vars, forks>>

\* C18: a spawned child whose program cannot be loaded (exec fails)
\* reports the failure and terminates with a non-zero status without ever
\* returning into the interpreter code: it never executes the
\* read-dispatch loop, so exactly one process acts as the interpreter, and
\* the parent still waits for that child.
C18_ExecFailure == []OneInterpreter /\ [][ExecFailureEndsChild]_vars

\* the child has ended on the failed execvp and the parent is in waitpid
C18_Witness ==
  /\ Depth >= 1
  /\ Top.pc = "wait"
  /\ child = "exited"
  /\ child_code = EXIT_FAILURE
  /\ err = "perror"
  /\ forks = 1

\* frame k is `history <N>` past the two tests of main.c:313 and 319: the
\* next thing it does is read history[offset]
AboutToRead(k) == AtHistory(k) /\ Path(k) = "replay"

\* C19: whenever `history <N>` reads an entry to replay, the index it
\* reads is a valid one: the store has been allocated and
\* 0 <= index <= history_len - 1, for every integer argument N and every
\* store state.
C19_ReadIndexValid ==
  \A k \in 1..Depth :
    (AboutToRead(k) /\ ~ub) =>
      LET offset == history_offset(Argv(heap, stack[k]))
      IN /\ history # HistoryNull
         /\ 0 <= offset
         /\ offset <= history_len - 1

\* no free has been given a string that was already released
NoDoubleFree == ~fault

\* each slot below history_len points to a string that is allocated, and
\* no two of them point to the same string
SlotsLiveAndDistinct ==
  history_len > 0 =>
    /\ history # HistoryNull
    /\ \A i \in 0..(history_len - 1) :
         /\ history[i] # NULL
         /\ heap[history[i]].live
         /\ \A j \in 0..(history_len - 1) : i # j => history[i] # history[j]

\* C20: across any sequence of add_to_history (including evictions at
\* full capacity) and clear_history calls, every stored string is released
\* at most once, and each slot at an index in 0..history_len-1 refers to a
\* string that is still allocated and is referred to by no other slot in
\* that range.
C20_StoreMemorySafe == NoDoubleFree /\ SlotsLiveAndDistinct

\* the store was cleared and a line was added after it: a slot above
\* history_len still holds the pointer the clear released
C20_Witness ==
  /\ history # HistoryNull
  /\ history_len >= 1
  /\ \E i \in Slots :
       /\ i >= history_len
       /\ history[i] # NULL
       /\ ~heap[history[i]].live

====
